---- MODULE Spec2Model ----
(***************************************************************************)
(* The crossword constraint solver of src/3-optimization/crossword/        *)
(* generate.py (class CrosswordCreator) as a state machine.                 *)
(*                                                                         *)
(* A word is a sequence of letters; a letter is a small natural number     *)
(* (1 = "A", 2 = "B", 3 = "C"), so that Python's string comparison is the  *)
(* lexicographic comparison of the sequences.  Word indices are 0-based as *)
(* in the source: the letter at Python index k of w is w[k + 1].           *)
(*                                                                         *)
(* One run of solve() is one behaviour: node consistency, the first ac3    *)
(* over every arc, then the recursive backtrack, kept as an explicit stack *)
(* of activation frames.  Each revise of ac3 and each pass of backtrack's  *)
(* for loop is one step.                                                   *)
(***************************************************************************)
EXTENDS Naturals, Sequences, FiniteSets

(***************************************************************************)
(* Bounds of the inputs.                                                    *)
(***************************************************************************)
\* the largest number of words of a vocabulary
MaxVocab == 6

\* the words a vocabulary is drawn from
Words ==
    { <<1, 1>>, <<1, 2>>, <<1, 3>>, <<2, 1>>, <<3, 2>>,
      <<1, 2, 1>>, <<1, 2, 2>>, <<2, 1, 1>> }

Vocabularies == { W \in SUBSET Words : Cardinality(W) <= MaxVocab }

(***************************************************************************)
(* The structural model: crossword.py, which generate.py imports.           *)
(***************************************************************************)
ACROSS == "across"
DOWN == "down"

Variable(i, j, direction, length) ==
    [i |-> i, j |-> j, direction |-> direction, length |-> length]

\* the cells of a variable, in word order (index k + 1 holds cell k)
cells(v) ==
    [k \in 1..v.length |->
        << v.i + (IF v.direction = DOWN THEN k - 1 ELSE 0),
           v.j + (IF v.direction = ACROSS THEN k - 1 ELSE 0) >>]

\* the grids   ___      ___
\*             _#_  and #__
Structures ==
    { { Variable(0, 0, ACROSS, 3), Variable(0, 0, DOWN, 2),
        Variable(0, 2, DOWN, 2) },
      { Variable(0, 0, ACROSS, 3), Variable(1, 1, ACROSS, 2),
        Variable(0, 1, DOWN, 2), Variable(0, 2, DOWN, 2) } }

None == << >>

\* crossword.overlaps[v1, v2]: None, or the 0-based indices of the shared cell
overlaps(v1, v2) ==
    LET cells1 == cells(v1)
        cells2 == cells(v2)
        shared == { p \in (1..v1.length) \X (1..v2.length) :
                        cells1[p[1]] = cells2[p[2]] }
    IN  IF shared = {} THEN None
        ELSE LET p == CHOOSE q \in shared : TRUE
             IN  << p[1] - 1, p[2] - 1 >>

VARIABLES
    crossword,    \* self.crossword: [variables, words]
    domains,      \* self.domains
    assignment,   \* the dict shared by every backtrack activation, in insertion order
    stack,        \* the activations of backtrack, outermost first
    arcs,         \* the worklist of the running ac3
    ac3_result,   \* what the last ac3 returned ("none" before the first return)
    revise_result,\* what the last revise returned ("none" before the first call)
    root_domains, \* self.domains when solve called backtrack
    pc,           \* where the run is
    result,       \* what solve() produced
    last          \* the step taken last

vars == << crossword, domains, assignment, stack, arcs, ac3_result,
           revise_result, root_domains, pc, result, last >>

\* crossword.neighbors(var)
neighbors(var) ==
    { v \in crossword.variables : v # var /\ overlaps(v, var) # None }

\* the sequences without repetition of all the elements of S
RECURSIVE Perms(_)
Perms(S) ==
    IF S = {} THEN { << >> }
    ELSE UNION { { << x >> \o s : s \in Perms(S \ { x }) } : x \in S }

\* the orders in which a set of variables (self.crossword.variables, the
\* set crossword.neighbors(var) returns, the set of the unassigned
\* variables) can be iterated: a Python set iterates in the order of its
\* hash table, which the source does not fix; each set is an object of its
\* own with an order of its own
Iterate(S) == Perms(S)

(***************************************************************************)
(* The assignment dict: a sequence of bindings in insertion order.          *)
(***************************************************************************)
keys(a) == { a[k].var : k \in 1..Len(a) }

get(a, v) == (CHOOSE b \in { a[k] : k \in 1..Len(a) } : b.var = v).value

\* assignment[var] = value
set_item(a, var, value) ==
    IF var \in keys(a)
    THEN [k \in 1..Len(a) |->
            IF a[k].var = var THEN [var |-> var, value |-> value] ELSE a[k]]
    ELSE Append(a, [var |-> var, value |-> value])

\* del assignment[var] removing nothing
del_item_mutant(a, var) == a

\* del assignment[var], for a var that is bound
del_item(a, var) == SelectSeq(a, LAMBDA b : b.var # var)


(***************************************************************************)
(* The constraint engine.                                                   *)
(***************************************************************************)
\* enforce_node_consistency keeping the words that are long enough
enforce_node_consistency_mutant(doms) ==
    [var \in crossword.variables |->
        { value \in doms[var] : var.length <= Len(value) }]

\* enforce_node_consistency: the domains it leaves
enforce_node_consistency(doms) ==
    [var \in crossword.variables |->
        { value \in doms[var] : var.length = Len(value) }]

\* x_value[x_index] == y_value[y_index] for some y_value of y's domain
supported(doms, x_value, x, y) ==
    LET x_index == overlaps(x, y)[1]
        y_index == overlaps(x, y)[2]
    IN  \E y_value \in doms[y] : x_value[x_index + 1] = y_value[y_index + 1]

\* revise reporting a revision only when it emptied the domain
revise_mutant(doms, x, y) ==
    IF overlaps(x, y) = None
    THEN [domains |-> doms, res |-> FALSE]
    ELSE LET tmp_domain == { x_value \in doms[x] : supported(doms, x_value, x, y) }
         IN  [domains |-> [doms EXCEPT ![x] = tmp_domain],
              res |-> tmp_domain = {}]

\* revise rebuilding x's domain from the whole vocabulary
revise_regain_mutant(doms, x, y) ==
    IF overlaps(x, y) = None
    THEN [domains |-> doms, res |-> FALSE]
    ELSE LET tmp_domain == { x_value \in crossword.words :
                                /\ Len(x_value) = x.length
                                /\ supported(doms, x_value, x, y) }
         IN  [domains |-> [doms EXCEPT ![x] = tmp_domain],
              res |-> \E x_value \in doms[x] : ~supported(doms, x_value, x, y)]

\* revise reporting a revision for every arc with an overlap
revise_always_mutant(doms, x, y) ==
    IF overlaps(x, y) = None
    THEN [domains |-> doms, res |-> FALSE]
    ELSE LET tmp_domain == { x_value \in doms[x] : supported(doms, x_value, x, y) }
         IN  [domains |-> [doms EXCEPT ![x] = tmp_domain],
              res |-> TRUE]

\* revise pruning y's domain against x's as well
revise_both_mutant(doms, x, y) ==
    IF overlaps(x, y) = None
    THEN [domains |-> doms, res |-> FALSE]
    ELSE LET tmp_domain == { x_value \in doms[x] : supported(doms, x_value, x, y) }
             y_domain == { y_value \in doms[y] : supported(doms, y_value, y, x) }
         IN  [domains |-> [doms EXCEPT ![x] = tmp_domain, ![y] = y_domain],
              res |-> \E x_value \in doms[x] : ~supported(doms, x_value, x, y)]

\* revise(x, y): the domains it leaves and the value it returns
revise(doms, x, y) ==
    IF overlaps(x, y) = None
    THEN [domains |-> doms, res |-> FALSE]
    ELSE LET tmp_domain == { x_value \in doms[x] : supported(doms, x_value, x, y) }
         IN  [domains |-> [doms EXCEPT ![x] = tmp_domain],
              res |-> \E x_value \in doms[x] : ~supported(doms, x_value, x, y)]

\* the arcs ac3 starts from when it is given none: every ordered pair
\* (order is the order self.crossword.variables iterates in, the same in
\* the outer and in the inner loop, which iterate the one set)
all_arcs(order) ==
    LET n == Len(order)
        pairs == [k \in 1..(n * n) |->
                    << order[((k - 1) \div n) + 1], order[((k - 1) % n) + 1] >>]
    IN  SelectSeq(pairs, LAMBDA arc : arc[1] # arc[2])

\* ac3 never finding an arc in the worklist
pending_mutant(queue, arc) == FALSE

\* (neighbor, x) is pending in the worklist
pending(queue, arc) == \E k \in 1..Len(queue) : queue[k] = arc

\* ac3 appending no arc after a revision
enqueue_mutant(queue, todo, x, y) == queue

\* the arcs (neighbor, x) ac3 appends after a revision of x against y
RECURSIVE enqueue(_, _, _, _)
enqueue(queue, todo, x, y) ==
    IF todo = << >> THEN queue
    ELSE LET neighbor == Head(todo)
         IN  IF neighbor # y /\ ~pending(queue, << neighbor, x >>)
             THEN enqueue(Append(queue, << neighbor, x >>), Tail(todo), x, y)
             ELSE enqueue(queue, Tail(todo), x, y)

assignment_complete(a) == \A var \in crossword.variables : var \in keys(a)

\* consistent without the check that the words differ
all_different_mutant(a) == TRUE

\* len(assignment) == len(set(assignment.values()))
all_different(a) ==
    Len(a) = Cardinality({ a[k].value : k \in 1..Len(a) })

\* the loops of consistent from the k-th key x on: for each x the length
\* check, then the comparison with every other key y in insertion order;
\* assignment[y][y_index] is read before y's own length is checked, and
\* raises IndexError when y's word is too short
RECURSIVE consistent_from(_, _)
consistent_from(a, k) ==
    IF k > Len(a) THEN "True"
    ELSE LET x == a[k].var
             x_index(m) == overlaps(x, a[m].var)[1]
             y_index(m) == overlaps(x, a[m].var)[2]
             out_of_range(m) == y_index(m) + 1 > Len(a[m].value)
             returns(m) ==
                \/ out_of_range(m)
                \/ a[k].value[x_index(m) + 1] # a[m].value[y_index(m) + 1]
             stopping == { m \in 1..Len(a) :
                            m # k /\ overlaps(x, a[m].var) # None /\ returns(m) }
             first == CHOOSE m \in stopping : \A n \in stopping : m <= n
         IN  IF x.length # Len(a[k].value) THEN "False"
             ELSE IF stopping = {} THEN consistent_from(a, k + 1)
             ELSE IF out_of_range(first) THEN "IndexError"
             ELSE "False"

\* what a call of consistent does: it returns True or False, or raises
consistent_outcome(a) ==
    IF ~all_different(a) THEN "False" ELSE consistent_from(a, 1)

consistent(a) == consistent_outcome(a) = "True"

(***************************************************************************)
(* The heuristics.                                                          *)
(***************************************************************************)
\* Python's < on strings
word_less(a, b) ==
    \E k \in 1..Len(b) :
        /\ \A m \in 1..(k - 1) : m <= Len(a) /\ a[m] = b[m]
        /\ (k > Len(a) \/ a[k] < b[k])

\* what `value` adds to ruled_out_values for one neighbor
ruled_out_in(doms, var, value, neighbor) ==
    LET index == overlaps(var, neighbor)[1]
        neighbor_index == overlaps(var, neighbor)[2]
    IN  (IF value \in doms[neighbor] THEN 1 ELSE 0)
        + Cardinality({ neighbor_value \in doms[neighbor] \ {value} :
                            value[index + 1] # neighbor_value[neighbor_index + 1] })

\* the sum over the neighbors of todo, in whatever order the set iterates
RECURSIVE sum_ruled_out(_, _, _, _)
sum_ruled_out(doms, var, value, todo) ==
    IF todo = {} THEN 0
    ELSE LET neighbor == CHOOSE n \in todo : TRUE
         IN  ruled_out_in(doms, var, value, neighbor)
             + sum_ruled_out(doms, var, value, todo \ {neighbor})

\* the counter order_domain_values computes for `value`
ruled_out_values(doms, var, a, value) ==
    sum_ruled_out(doms, var, value, neighbors(var) \ keys(a))

\* sorted(zip(counters, domains), reverse=True): (c1, w1) comes before (c2, w2)
sorts_before(c1, w1, c2, w2) == c1 > c2 \/ (c1 = c2 /\ word_less(w2, w1))

order_domain_values(doms, var, a) ==
    LET D == doms[var]
        before(u, w) ==
            sorts_before(ruled_out_values(doms, var, a, u), u,
                         ruled_out_values(doms, var, a, w), w)
    IN  [k \in 1..Cardinality(D) |->
            CHOOSE w \in D : Cardinality({ u \in D : before(u, w) }) = k - 1]

\* the minimum of a non-empty set of numbers, and the maximum
min(S) == CHOOSE n \in S : \A m \in S : n <= m
max(S) == CHOOSE n \in S : \A m \in S : n >= m

\* the degree filter keeping the variables with the fewest neighbors
highest_degree_mutant(selected_variables) ==
    IF Len(selected_variables) # 1
    THEN LET min_neighbors ==
                min({ Cardinality(neighbors(selected_variables[k])) :
                        k \in 1..Len(selected_variables) })
         IN  SelectSeq(selected_variables,
                       LAMBDA var : Cardinality(neighbors(var)) = min_neighbors)
    ELSE selected_variables

\* the degree filter of select_unassigned_variable
highest_degree(selected_variables) ==
    IF Len(selected_variables) # 1
    THEN LET max_neighbors ==
                max({ Cardinality(neighbors(selected_variables[k])) :
                        k \in 1..Len(selected_variables) })
         IN  SelectSeq(selected_variables,
                       LAMBDA var : Cardinality(neighbors(var)) = max_neighbors)
    ELSE selected_variables

\* select_unassigned_variable, where unassigned_variables is the list
\* list(set(self.crossword.variables - assignment.keys())) of this call
select_unassigned_variable(doms, a, unassigned_variables) ==
    LET min_values == min({ Cardinality(doms[unassigned_variables[k]]) :
                                k \in 1..Len(unassigned_variables) })
        selected_variables ==
            SelectSeq(unassigned_variables,
                      LAMBDA var : Cardinality(doms[var]) = min_values)
    IN  highest_degree(selected_variables)[1]

\* the lists of arcs backtrack can hand to ac3 after a binding: the assigned
\* variables in the order of the dict, the neighbors of each in an order its
\* set of neighbors can iterate in
RECURSIVE arcs_of(_)
arcs_of(a) ==
    IF a = << >> THEN { << >> }
    ELSE LET assigned_var == Head(a).var
         IN  { [k \in 1..Len(ns) |-> << ns[k], assigned_var >>] \o rest :
                    ns \in Iterate(neighbors(assigned_var)),
                    rest \in arcs_of(Tail(a)) }

(***************************************************************************)
(* The run of solve().                                                      *)
(*                                                                         *)
(* pc: "solve"     before enforce_node_consistency                          *)
(*     "ac3"       inside the while loop of ac3                             *)
(*     "backtrack" at the entry of a backtrack activation                   *)
(*     "for"       at the head of the for loop of the innermost activation  *)
(*     "restore"   the recursive call of the innermost activation returned  *)
(*                 None                                                     *)
(*     "done"      solve() is over                                          *)
(*                                                                         *)
(* A frame holds the locals of one activation of backtrack: var, the        *)
(* candidate values not tried yet, and tmp_domains (unbound in the source   *)
(* until the first snapshot, and never read before it).  entry_domains and  *)
(* entry_assignment record the state the activation was entered in.         *)
(***************************************************************************)
top == stack[Len(stack)]

\* the snapshot taken after the domain of var is narrowed
snapshot_mutant(doms, var, value) == [doms EXCEPT ![var] = {value}]

\* tmp_domains = deepcopy(self.domains), taken before var's domain is narrowed
\* to {value}
snapshot(doms, var, value) == doms

\* the failed branch keeping its narrowed domains
restore_mutant(doms, frame) == doms

\* self.domains = tmp_domains, after the recursion returned None
restore(doms, frame) == frame.tmp_domains

\* the tentative binding leaving var's domain as it was
narrow_mutant(doms, var, value) == doms

\* self.domains[var] = {value}
narrow(doms, var, value) == [doms EXCEPT ![var] = {value}]

set_top(frame) == [stack EXCEPT ![Len(stack)] = frame]

pop == SubSeq(stack, 1, Len(stack) - 1)

Running == [status |-> "running", value |-> << >>]

Init ==
    /\ crossword \in [variables : Structures, words : Vocabularies]
    /\ domains = [var \in crossword.variables |-> crossword.words]
    /\ assignment = << >>
    /\ stack = << >>
    /\ arcs = << >>
    /\ ac3_result = "none"
    /\ revise_result = "none"
    /\ root_domains = domains
    /\ pc = "solve"
    /\ result = Running
    /\ last = "init"

\* solve: enforce_node_consistency(), then ac3() builds its list of all arcs
EnforceNodeConsistency ==
    /\ pc = "solve"
    /\ domains' = enforce_node_consistency(domains)
    /\ \E order \in Iterate(crossword.variables) : arcs' = all_arcs(order)
    /\ pc' = "ac3"
    /\ last' = "enforce_node_consistency"
    /\ UNCHANGED << revise_result, root_domains, crossword, assignment, stack, ac3_result, result >>

\* ac3: an arc is popped and revise changes nothing
Ac3Unchanged ==
    /\ pc = "ac3"
    /\ arcs # << >>
    /\ LET x == Head(arcs)[1]
           y == Head(arcs)[2]
           r == revise(domains, x, y)
       IN  /\ ~r.res
           /\ domains' = r.domains
           /\ arcs' = Tail(arcs)
    /\ last' = "revise"
    /\ revise_result' = "False"
    /\ UNCHANGED << root_domains, crossword, assignment, stack, ac3_result, pc, result >>

\* ac3: an arc is popped, revise removes values and the domain is not empty
Ac3Revised ==
    /\ pc = "ac3"
    /\ arcs # << >>
    /\ LET x == Head(arcs)[1]
           y == Head(arcs)[2]
           r == revise(domains, x, y)
       IN  /\ r.res
           /\ r.domains[x] # {}
           /\ domains' = r.domains
           /\ \E todo \in Iterate(neighbors(x)) :
                arcs' = enqueue(Tail(arcs), todo, x, y)
    /\ last' = "revise"
    /\ revise_result' = "True"
    /\ UNCHANGED << root_domains, crossword, assignment, stack, ac3_result, pc, result >>

\* ac3: an arc is popped, revise empties the domain: return False
Ac3Empty ==
    /\ pc = "ac3"
    /\ arcs # << >>
    /\ LET x == Head(arcs)[1]
           y == Head(arcs)[2]
           r == revise(domains, x, y)
       IN  /\ r.res
           /\ r.domains[x] = {}
           /\ domains' = r.domains
           /\ arcs' = Tail(arcs)
    /\ ac3_result' = "False"
    /\ pc' = "backtrack"
    /\ last' = "ac3_false"
    /\ revise_result' = "True"
    /\ root_domains' = IF stack = << >> THEN domains' ELSE root_domains
    /\ UNCHANGED << crossword, assignment, stack, result >>

\* ac3: the worklist is empty: return True
Ac3Return ==
    /\ pc = "ac3"
    /\ arcs = << >>
    /\ ac3_result' = "True"
    /\ pc' = "backtrack"
    /\ last' = "ac3_true"
    /\ root_domains' = IF stack = << >> THEN domains ELSE root_domains
    /\ UNCHANGED << revise_result, crossword, domains, assignment, stack, arcs, result >>

\* backtrack: the assignment is complete; every activation returns it
BacktrackComplete ==
    /\ pc = "backtrack"
    /\ assignment_complete(assignment)
    /\ result' = [status |-> "assignment", value |-> assignment]
    /\ stack' = << >>
    /\ pc' = "done"
    /\ last' = "return_assignment"
    /\ UNCHANGED << revise_result, root_domains, crossword, domains, assignment, arcs, ac3_result >>

\* backtrack: select the variable and order its values
BacktrackSelect ==
    /\ pc = "backtrack"
    /\ ~assignment_complete(assignment)
    /\ \E unassigned_variables \in Iterate(crossword.variables \ keys(assignment)) :
        LET var == select_unassigned_variable(domains, assignment,
                                              unassigned_variables)
        IN  stack' = Append(stack,
                [var |-> var,
                 values |-> order_domain_values(domains, var, assignment),
                 tmp_domains |-> domains,
                 entry_domains |-> domains,
                 entry_assignment |-> assignment])
    /\ pc' = "for"
    /\ last' = "select"
    /\ UNCHANGED << revise_result, root_domains, crossword, domains, assignment, arcs, ac3_result, result >>

\* for loop: the next value is bound and the assignment is not consistent
TryInconsistent ==
    /\ pc = "for"
    /\ top.values # << >>
    /\ LET value == Head(top.values)
           bound == set_item(assignment, top.var, value)
       IN  /\ consistent_outcome(bound) = "False"
           /\ assignment' = bound
    /\ stack' = set_top([top EXCEPT !.values = Tail(@)])
    /\ last' = "inconsistent"
    /\ UNCHANGED << revise_result, root_domains, crossword, domains, arcs, ac3_result, pc, result >>

\* for loop: the next value is bound and consistent: snapshot, narrow, and
\* call ac3 with the arcs into the assigned variables
TryConsistent ==
    /\ pc = "for"
    /\ top.values # << >>
    /\ LET value == Head(top.values)
           bound == set_item(assignment, top.var, value)
       IN  /\ consistent(bound)
           /\ assignment' = bound
           /\ stack' = set_top([top EXCEPT !.values = Tail(@),
                                           !.tmp_domains =
                                                snapshot(domains, top.var, value)])
           /\ domains' = narrow(domains, top.var, value)
           /\ arcs' \in arcs_of(bound)
    /\ pc' = "ac3"
    /\ last' = "bind"
    /\ UNCHANGED << revise_result, root_domains, crossword, ac3_result, result >>

\* after the loop: del assignment[var] and return None to the caller
ReturnNone ==
    /\ pc = "for"
    /\ top.values = << >>
    /\ top.var \in keys(assignment)
    /\ assignment' = del_item(assignment, top.var)
    /\ stack' = pop
    /\ IF Len(stack) = 1
       THEN /\ result' = [status |-> "None", value |-> << >>]
            /\ pc' = "done"
       ELSE /\ result' = result
            /\ pc' = "restore"
    /\ last' = "return_none"
    /\ UNCHANGED << revise_result, root_domains, crossword, domains, arcs, ac3_result >>

\* after the loop: del assignment[var] of a var that was never bound raises
\* KeyError, which no activation and neither solve nor main catches
DelKeyError ==
    /\ pc = "for"
    /\ top.values = << >>
    /\ top.var \notin keys(assignment)
    /\ result' = [status |-> "KeyError", value |-> << >>]
    /\ stack' = << >>
    /\ pc' = "done"
    /\ last' = "raise"
    /\ UNCHANGED << revise_result, root_domains, crossword, domains, assignment, arcs, ac3_result >>

\* the recursive call returned None: self.domains = tmp_domains
Restore ==
    /\ pc = "restore"
    /\ domains' = restore(domains, top)
    /\ pc' = "for"
    /\ last' = "restore"
    /\ UNCHANGED << revise_result, root_domains, crossword, assignment, stack, arcs, ac3_result, result >>

Next ==
    \/ EnforceNodeConsistency
    \/ Ac3Unchanged
    \/ Ac3Revised
    \/ Ac3Empty
    \/ Ac3Return
    \/ BacktrackComplete
    \/ BacktrackSelect
    \/ TryInconsistent
    \/ TryConsistent
    \/ ReturnNone
    \/ DelKeyError
    \/ Restore

Spec == Init /\ [][Next]_vars

(***************************************************************************)
(* What the solver is meant to establish, stated without the solver's own  *)
(* predicates.                                                              *)
(***************************************************************************)
\* the letters of two bound words at the shared cell agree
agree(x, wx, y, wy) ==
    overlaps(x, y) # None => wx[overlaps(x, y)[1] + 1] = wy[overlaps(x, y)[2] + 1]

\* f maps every variable to a word: distinct words, of the right lengths,
\* agreeing at every overlap
IsSolution(f) ==
    /\ \A x, y \in crossword.variables : x # y => f[x] # f[y]
    /\ \A x \in crossword.variables : Len(f[x]) = x.length
    /\ \A x, y \in crossword.variables : x # y => agree(x, f[x], y, f[y])

\* the assignment dict a as a function on the variables it binds
AsFunction(a) == [x \in keys(a) |-> get(a, x)]

Solvable == \E f \in [crossword.variables -> crossword.words] : IsSolution(f)

\* a variable no word of the vocabulary fits
Unfillable(var) == \A w \in crossword.words : Len(w) # var.length

\* C1: every assignment solve returns binds every variable, to pairwise
\* different words, each of its variable's length, agreeing at every overlap.
C1_AssignmentValid ==
    result.status = "assignment" =>
        /\ keys(result.value) = crossword.variables
        /\ Len(result.value) = Cardinality(crossword.variables)
        /\ IsSolution(AsFunction(result.value))

\* solve returned an assignment for the grid with four variables, from a
\* vocabulary with more words than variables
C1_Witness ==
    /\ result.status = "assignment"
    /\ Cardinality(crossword.variables) = 4
    /\ Cardinality(crossword.words) > 4

\* C2: a run of solve ends by returning an assignment or by returning None,
\* and in no other way.
C2_AssignmentOrNone ==
    pc = "done" => result.status \in { "assignment", "None" }

\* C3: when no word of the vocabulary has the length of some variable, node
\* consistency leaves that variable's domain empty and solve returns None.
C3_NoWordOfLength ==
    \A var \in crossword.variables :
        Unfillable(var) =>
            /\ pc # "solve" => domains[var] = {}
            /\ pc = "done" => result.status = "None"

\* C4: when some complete assignment satisfies every constraint, solve
\* returns a complete assignment.
C4_FindsSolution ==
    (pc = "done" /\ Solvable) => result.status = "assignment"

\* every word of x's domain has a word of y's domain agreeing with it at the
\* overlap, for every ordered pair (x, y) that overlaps
ArcConsistent(doms) ==
    \A x, y \in crossword.variables :
        (x # y /\ overlaps(x, y) # None) =>
            \A wx \in doms[x] : \E wy \in doms[y] : agree(x, wx, y, wy)

\* the first ac3 of solve (no arc list given) has just returned True
FirstAc3ReturnedTrue == last = "ac3_true" /\ stack = << >>

\* C5: after ac3 with no explicit arc list returns True, every word of X's
\* domain has a word of Y's domain agreeing at the overlap, for every ordered
\* pair (X, Y) with an overlap.
C5_ArcConsistentAfterAc3 == FirstAc3ReturnedTrue => ArcConsistent(domains)

\* the first ac3 returned True, left no domain empty and removed a word that
\* node consistency had kept
C5_Witness ==
    /\ FirstAc3ReturnedTrue
    /\ \A var \in crossword.variables : domains[var] # {}
    /\ \E var \in crossword.variables :
            domains[var] # { w \in crossword.words : Len(w) = var.length }

\* C6: ac3 returns True only if no domain is empty when it returns; if a
\* domain ends up empty (also one that was empty when ac3 was called), ac3
\* returns False.
C6_TrueOnlyIfNoEmptyDomain ==
    last \in { "ac3_true", "ac3_false" } =>
        ((\E var \in crossword.variables : domains[var] = {}) =>
            ac3_result = "False")

\* C7: in every state after enforce_node_consistency, every word of every
\* domain has the length of its variable.
C7_NodeConsistent ==
    pc # "solve" =>
        \A var \in crossword.variables :
            \A w \in domains[var] : Len(w) = var.length

\* a failed branch has been restored and a domain holds several words again
C7_Witness ==
    /\ last = "restore"
    /\ \E var \in crossword.variables : Cardinality(domains[var]) >= 2

\* C8: at the head of the for loop of a backtrack activation, that is before
\* a candidate is bound, after a candidate is rejected and after a failed
\* branch is restored, the domains are the domains the activation was
\* entered with; so a failed branch leaves the domains as they were before
\* its candidate was bound, and a call that returns None (which it does from
\* the head of the loop) leaves them as they were at its entry.
C8_FailedBranchRestored == pc = "for" => domains = top.entry_domains

\* a failed branch has just been restored: the selected variable, narrowed
\* to the candidate by the branch, has its other candidates back
C8_Witness ==
    /\ last = "restore"
    /\ Cardinality(domains[top.var]) >= 2
    /\ domains = top.entry_domains

\* C9: order_domain_values returns every word of the domain exactly once, in
\* ascending order of the number of neighbor values the word rules out.
C9_AscendingEliminationCount ==
    last = "select" =>
        LET var == top.var
            values == top.values
            count(k) == ruled_out_values(domains, var, assignment, values[k])
        IN  /\ Len(values) = Cardinality(domains[var])
            /\ { values[k] : k \in 1..Len(values) } = domains[var]
            /\ \A k, m \in 1..Len(values) : k < m => count(k) <= count(m)

\* C10: select_unassigned_variable returns an unbound variable whose domain
\* is smallest among the unbound variables and whose number of neighbors is
\* largest among the unbound variables with a domain of that size.
C10_MinimumRemainingValuesThenDegree ==
    last = "select" =>
        LET var == top.var
            unbound == crossword.variables \ keys(assignment)
        IN  /\ var \in unbound
            /\ \A u \in unbound :
                Cardinality(domains[var]) <= Cardinality(domains[u])
            /\ \A u \in unbound :
                Cardinality(domains[u]) = Cardinality(domains[var]) =>
                    Cardinality(neighbors(u)) <= Cardinality(neighbors(var))

\* a variable was selected over an unbound variable with a domain of the
\* same size and fewer neighbors, and over one with a larger domain
C10_Witness ==
    /\ last = "select"
    /\ \E u \in crossword.variables \ keys(assignment) :
        /\ Cardinality(domains[u]) = Cardinality(domains[top.var])
        /\ Cardinality(neighbors(u)) < Cardinality(neighbors(top.var))
    /\ \E u \in crossword.variables \ keys(assignment) :
        Cardinality(domains[u]) > Cardinality(domains[top.var])

(***************************************************************************)
(* consistent as a function of its argument: a dict is built one binding   *)
(* at a time, of any variable to any word of the vocabulary, and            *)
(* consistent is called on it after each binding.                           *)
(***************************************************************************)
ConsistentInit ==
    /\ crossword \in [variables : Structures, words : {Words}]
    /\ domains = [var \in crossword.variables |-> crossword.words]
    /\ assignment = << >>
    /\ stack = << >>
    /\ arcs = << >>
    /\ ac3_result = "none"
    /\ revise_result = "none"
    /\ root_domains = domains
    /\ pc = "consistent"
    /\ result = Running
    /\ last = "init"

ConsistentCall ==
    /\ pc = "consistent"
    /\ \E var \in crossword.variables \ keys(assignment) :
        \E value \in crossword.words :
            /\ assignment' = set_item(assignment, var, value)
            /\ result' = [status |-> consistent_outcome(assignment'),
                          value |-> << >>]
    /\ last' = "consistent"
    /\ UNCHANGED << revise_result, root_domains, crossword, domains,
                    stack, arcs, ac3_result, pc >>

ConsistentSpec == ConsistentInit /\ [][ConsistentCall]_vars

\* the words bound by a differ, have the lengths of their variables and
\* agree at the overlaps of the bound variables
PartialSolution(a) ==
    /\ \A k, m \in 1..Len(a) : k # m => a[k].value # a[m].value
    /\ \A k \in 1..Len(a) : Len(a[k].value) = a[k].var.length
    /\ \A k, m \in 1..Len(a) :
        k # m => agree(a[k].var, a[k].value, a[m].var, a[m].value)

\* C11: consistent returns True exactly when the bound words are pairwise
\* distinct, each of its variable's length, and agree at every overlap of
\* two bound variables; it returns False when one of these fails.
C11_ConsistentDecides ==
    last = "consistent" =>
        result.status = IF PartialSolution(assignment) THEN "True" ELSE "False"

\* C12: a step of ac3 that revises an arc (x, y) with a defined overlap leaves
\* in x's domain exactly the words of x's prior domain that agree with some
\* word of y's domain at the overlap, changes no other domain, and revise
\* returns True if and only if a word was removed.
C12_ReviseKeepsSupported ==
    [][ (pc = "ac3" /\ arcs # << >>
            /\ overlaps(Head(arcs)[1], Head(arcs)[2]) # None) =>
        LET x == Head(arcs)[1]
            y == Head(arcs)[2]
        IN  /\ domains'[x] = { wx \in domains[x] :
                                \E wy \in domains[y] : agree(x, wx, y, wy) }
            /\ \A v \in crossword.variables \ {x} : domains'[v] = domains[v]
            /\ (revise_result' = "True") <=> (domains'[x] # domains[x]) ]_vars

\* a revision during the search removed a word and left one
C12_Witness ==
    /\ last = "revise"
    /\ revise_result = "True"
    /\ stack # << >>
    /\ \E v \in crossword.variables : Cardinality(domains[v]) >= 2

\* C14: during the search, when the ac3 run that follows a tentative binding
\* has returned False, the next step of backtrack is not a recursion on that
\* binding: it restores the domain snapshot and goes on with the candidate
\* loop of the same activation.
C14_NoRecursionAfterAc3False ==
    [][ (pc = "backtrack" /\ stack # << >> /\ ac3_result = "False") =>
            /\ domains' = top.tmp_domains
            /\ stack' = stack
            /\ pc' = "for" ]_vars

\* C15: an activation of backtrack whose candidate loop has ended reports
\* failure upward (returns None) and leaves the assignment exactly as it was
\* given at entry, also when the selected variable had no candidate value.
C15_FailureLeavesEntryAssignment ==
    [][ (pc = "for" /\ top.values = << >>) =>
            /\ last' = "return_none"
            /\ assignment' = top.entry_assignment ]_vars

\* C16 as stated: at the head of the candidate loop (before the next
\* candidate is bound, and when the loop has ended) the selected variable has
\* no binding, every rejected candidate's binding having been undone.
C16_RejectedBindingUndone == pc = "for" => top.var \notin keys(assignment)

\* C16 amended: a rejected candidate's binding is not undone; it stays until
\* the next candidate overwrites it or the del after the loop removes it. At
\* the head of the candidate loop the assignment is the assignment given at
\* entry when no candidate has been tried, and otherwise the entry assignment
\* followed by the selected variable bound to the last candidate tried.
C16_BindingOverwritten ==
    pc = "for" =>
        LET values == order_domain_values(top.entry_domains, top.var,
                                          top.entry_assignment)
            tried == Len(values) - Len(top.values)
        IN  /\ top.var \notin keys(top.entry_assignment)
            /\ assignment =
                    IF tried = 0 THEN top.entry_assignment
                    ELSE Append(top.entry_assignment,
                                [var |-> top.var, value |-> values[tried]])

\* a recursion failed, its candidate is still bound and another candidate
\* is about to overwrite it
C16_Witness ==
    /\ pc = "for"
    /\ last = "restore"
    /\ top.values # << >>
    /\ top.var \in keys(assignment)

\* C17 as stated: the snapshot is restored on the success path too, so after
\* solve returns an assignment the domains equal the domains that node and
\* arc consistency left before the first tentative binding.
C17_RestoredOnSuccess == result.status = "assignment" => domains = root_domains

\* C17 amended: the snapshot is restored only when the recursion returns
\* None. After solve returns None the domains are those left by node and arc
\* consistency; after solve returns an assignment they stay narrowed: each
\* variable's domain holds at most its assigned word and is a subset of the
\* domain it had before the first tentative binding.
C17_RestoredOnlyOnFailure ==
    /\ result.status = "None" => domains = root_domains
    /\ result.status = "assignment" =>
            \A v \in crossword.variables :
                /\ domains[v] \subseteq root_domains[v]
                /\ domains[v] \subseteq { get(result.value, v) }

\* solve returned an assignment and left narrowed domains behind
C17_Witness ==
    /\ result.status = "assignment"
    /\ \E v \in crossword.variables : Cardinality(root_domains[v]) >= 2
    /\ domains # root_domains

\* C18: after node-consistency filtering, every step other than the restore
\* of a snapshot (each revise of ac3, each narrowing of a domain to the word
\* tentatively bound, and every step that leaves the domains alone) only
\* shrinks domains: each domain after the step is a subset of the domain
\* before it.
C18_DomainsOnlyShrink ==
    [][ (pc # "solve" /\ pc # "restore") =>
            \A v \in crossword.variables : domains'[v] \subseteq domains[v] ]_vars

\* a tentative binding has narrowed a domain of several words to one word
C18_Witness ==
    /\ last = "bind"
    /\ Cardinality(top.tmp_domains[top.var]) >= 2
    /\ Cardinality(domains[top.var]) = 1

\* C19: ac3 appends an arc (Z, X) after a revision of X only if that arc is
\* not already pending, so the worklist never holds an arc twice and never
\* holds more arcs than there are ordered pairs of distinct variables.
C19_NoArcTwice ==
    pc = "ac3" =>
        /\ \A i, j \in 1..Len(arcs) : i # j => arcs[i] # arcs[j]
        /\ Len(arcs) <= Cardinality(crossword.variables)
                            * (Cardinality(crossword.variables) - 1)

\* the first arc (x, y) of the first ac3 was revised with a removal, x has a
\* neighbor z other than y, and the worklist is the initial one less that
\* arc: (z, x) was pending and was not appended again
C19_Witness ==
    /\ pc = "ac3"
    /\ stack = << >>
    /\ last = "revise"
    /\ revise_result = "True"
    /\ \E order \in Iterate(crossword.variables) :
        /\ arcs = Tail(all_arcs(order))
        /\ neighbors(order[1]) \ { order[2] } # {}

\* AA, AB, BA, ABB, BAA: the words of the runs checked for termination
LiveWords == { <<1, 1>>, <<1, 2>>, <<2, 1>>, <<1, 2, 2>>, <<2, 1, 1>> }

\* the runs of the program on the vocabularies of LiveWords
LiveInit == Init /\ crossword.words \subseteq LiveWords

\* one iteration of ac3's while loop, or its return
Ac3Step == Ac3Unchanged \/ Ac3Revised \/ Ac3Empty \/ Ac3Return

\* The program is sequential: inside ac3 the loop's next iteration (or the
\* return) is executed, so an ac3 step that stays possible is taken.
LiveSpec == LiveInit /\ [][Next]_vars /\ WF_vars(Ac3Step)

\* C20: every call of ac3 terminates, on cyclic overlap graphs too: from any
\* state inside ac3 the run reaches a state where ac3 has returned (with the
\* worklist empty, or with a domain emptied).
C20_Ac3Terminates == (pc = "ac3") ~> (pc # "ac3")

\* an ac3 run of the search on the grid whose overlap graph is a cycle has
\* emptied its worklist and returned, leaving some domain of several words
C20_Witness ==
    /\ last = "ac3_true"
    /\ stack # << >>
    /\ arcs = << >>
    /\ Cardinality(crossword.variables) = 4
    /\ \E v \in crossword.variables : Cardinality(domains[v]) >= 2

\* C21: a revise(x, y) of ac3 changes at most x's domain: the domain of y
\* and of every other variable stays as it was; when x and y have no
\* overlap it returns False and changes no domain at all.
C21_ReviseChangesOnlyX ==
    [][ (pc = "ac3" /\ arcs # << >>) =>
        LET x == Head(arcs)[1]
            y == Head(arcs)[2]
        IN  /\ domains'[y] = domains[y]
            /\ \A v \in crossword.variables \ {x} : domains'[v] = domains[v]
            /\ overlaps(x, y) = None =>
                    (revise_result' = "False" /\ domains' = domains) ]_vars

\* the first arc of the first ac3 joined two variables without an overlap:
\* revise returned False and the worklist is the initial one less that arc
C21_Witness ==
    /\ pc = "ac3"
    /\ stack = << >>
    /\ last = "revise"
    /\ revise_result = "False"
    /\ \E order \in Iterate(crossword.variables) :
        /\ arcs = Tail(all_arcs(order))
        /\ overlaps(order[1], order[2]) = None

\* C22: at every entry to backtrack, the root call and every recursive call,
\* the domain of each variable bound in the assignment is exactly the
\* singleton of its bound word; the propagation that runs after a binding
\* (every state inside ac3 included) never removes a bound variable's word.
C22_BoundDomainIsSingleton ==
    (pc = "backtrack" \/ pc = "ac3") =>
        \A k \in 1..Len(assignment) :
            domains[assignment[k].var] = { assignment[k].value }

\* backtrack is entered after a second binding whose propagation pruned the
\* domain of another variable, the first bound variable having had several
\* candidate words
C22_Witness ==
    /\ pc = "backtrack"
    /\ last = "ac3_true"
    /\ Len(assignment) >= 2
    /\ ~assignment_complete(assignment)
    /\ Cardinality(root_domains[assignment[1].var]) >= 2
    /\ \E v \in crossword.variables \ { top.var } :
            domains[v] # top.tmp_domains[v]

(***************************************************************************)
(* The heuristics as functions of the state: at an entry to backtrack      *)
(* select_unassigned_variable and order_domain_values are called, and then *)
(* called once more on the same domains and the same assignment, either by *)
(* the running process or by another run of the program on the same        *)
(* crossword. The list of line 220 is built from a set, which iterates in  *)
(* the order of its hash table: the hash of a Variable covers its          *)
(* direction, a str, whose hash Python draws anew for every process. A     *)
(* process that builds the set again, from the same objects by the same    *)
(* operations, lists it in the same order; another process lists it in an  *)
(* order of its own.                                                       *)
(***************************************************************************)

\* what one call of select_unassigned_variable and of order_domain_values
\* returns, with the list the call built at line 220
heuristics(unassigned_variables) ==
    LET var == select_unassigned_variable(domains, assignment,
                                          unassigned_variables)
    IN  [var |-> var,
         values |-> order_domain_values(domains, var, assignment),
         unassigned_variables |-> unassigned_variables]

\* what a call returned: the variable and the order of its values
answer(call) == [var |-> call.var, values |-> call.values]

\* the call at an entry to backtrack
SelectCall ==
    /\ pc = "backtrack"
    /\ ~assignment_complete(assignment)
    /\ \E unassigned_variables \in Iterate(crossword.variables \ keys(assignment)) :
        stack' = << heuristics(unassigned_variables) >>
    /\ pc' = "select"
    /\ last' = "select_call"
    /\ UNCHANGED << revise_result, root_domains, crossword, domains, assignment,
                    arcs, ac3_result, result >>

\* the same process calls again: line 220 lists the same set in the same
\* order; the stack then holds what the two calls returned
SelectAgain ==
    /\ pc = "select"
    /\ stack' = << answer(stack[1]),
                   answer(heuristics(stack[1].unassigned_variables)) >>
    /\ pc' = "selected"
    /\ last' = "select_again"
    /\ UNCHANGED << revise_result, root_domains, crossword, domains, assignment,
                    arcs, ac3_result, result >>

\* another run of the program on the same crossword, which entered backtrack
\* with the same domains and the same assignment, calls with hashes of its
\* own: its set of line 220 iterates in an order of its own
SelectOtherRun ==
    /\ pc = "select"
    /\ \E var \in { select_unassigned_variable(domains, assignment,
                                                unassigned_variables) :
                        unassigned_variables \in
                            Iterate(crossword.variables \ keys(assignment)) } :
        stack' = << answer(stack[1]),
                    [var |-> var,
                     values |-> order_domain_values(domains, var, assignment)] >>
    /\ pc' = "selected"
    /\ last' = "select_other_run"
    /\ UNCHANGED << revise_result, root_domains, crossword, domains, assignment,
                    arcs, ac3_result, result >>

SelectSpec ==
    Init /\ [][Next \/ SelectCall \/ SelectAgain \/ SelectOtherRun]_vars

\* C13: on identical domains and an identical assignment, two calls of
\* select_unassigned_variable return the same variable and two calls of
\* order_domain_values return the same order, ties included.
C13_SameChoiceOnRepeatedCalls ==
    pc = "selected" =>
        /\ stack[1].var = stack[2].var
        /\ stack[1].values = stack[2].values
====
